---- MODULE Spec2Model ----
(***************************************************************************)
(* Model of the AWS CloudWatch Logs exporter                               *)
(* (exporter/awscloudwatchlogsexporter/exporter.go): the translation of    *)
(* log records into CloudWatch events, the registry of Pushers, and the    *)
(* PushLogs / ConsumeLogs / Shutdown / Start entry points run by           *)
(* concurrent callers.                                                     *)
(*                                                                         *)
(* Conventions.  A Go string is a sequence of one-character strings        *)
(* (<<>> is ""); map keys are TLA+ strings.  A tagged value is a pair      *)
(* <<tag, payload>>.  An unsigned 64-bit number is a sequence of seven     *)
(* base-1000 limbs, most significant first, so that the full width of      *)
(* the type is kept.                                                       *)
(***************************************************************************)
EXTENDS Integers, Sequences, FiniteSets, TLC

VARIABLES
    config,                 \* e.config: <<LogGroupName, LogStreamName>>
    seqTokenMu,             \* e.seqTokenMu: 0 when free, else the caller holding it
    groupStreamToPusherMap, \* e.groupStreamToPusherMap: group -> reference of a stream map
    streamMaps,             \* the stream maps allocated so far: reference -> (stream -> Pusher)
    pushers,                \* the Pushers constructed so far: Pusher -> <<group, stream>>
    pc,                     \* per caller: the statement it is at
    frame,                  \* per caller: the arguments, locals and result of its latest call
    fatal,                  \* the runtime has stopped the process (concurrent map access)
    trace,                  \* history: the calls made on Pushers, in order
    nitems,                 \* history: the calls made and the items of their batches, counted
    xin,                    \* the translator alone: its input (resource attributes, record)
    xout                    \* the translator alone: the result of logToCWLog

vars == <<config, seqTokenMu, groupStreamToPusherMap, streamMaps, pushers, pc,
          frame, fatal, trace, nitems, xin, xout>>

----------------------------------------------------------------------------
(* Bounds of the model *)

NumCallers == 2     \* callers of the entry points, one call each
MaxItems == 8       \* calls + resource groups + scope groups + records, one call at a time
AttrDepth == 1      \* nesting depth of the attribute values tried

----------------------------------------------------------------------------
(* Unsigned 64-bit arithmetic on limbs *)

Zero7 == <<0, 0, 0, 0, 0, 0, 0>>
TwoTo63 == <<9, 223, 372, 36, 854, 775, 808>>
TwoTo64 == <<18, 446, 744, 73, 709, 551, 616>>

LimbLess(a, b) ==
    \E i \in 1..Len(a) : (\A j \in 1..(i - 1) : a[j] = b[j]) /\ a[i] < b[i]

RECURSIVE LimbSubAt(_, _, _, _)
LimbSubAt(a, b, i, borrow) ==
    IF i = 0 THEN <<>>
    ELSE LET d == a[i] - b[i] - borrow
         IN  Append(LimbSubAt(a, b, i - 1, IF d < 0 THEN 1 ELSE 0),
                    IF d < 0 THEN d + 1000 ELSE d)

\* a - b for a >= b
LimbSub(a, b) == LimbSubAt(a, b, Len(a), 0)

RECURSIVE LimbDivAt(_, _, _, _)
LimbDivAt(a, d, i, rem) ==
    IF i > Len(a) THEN <<>>
    ELSE LET cur == rem * 1000 + a[i]
         IN  <<cur \div d>> \o LimbDivAt(a, d, i + 1, cur % d)

\* floor(a / d) for a small divisor d
LimbDiv(a, d) == LimbDivAt(a, d, 1, 0)

\* Go's int64(x) of a uint64 x: the same 64 bits read as two's complement
ToInt64(u) ==
    IF LimbLess(u, TwoTo63) THEN [neg |-> FALSE, mag |-> u]
    ELSE [neg |-> TRUE, mag |-> LimbSub(TwoTo64, u)]

\* Go's x / d on int64: the quotient truncated toward zero
DivInt64(x, d) ==
    LET q == LimbDiv(x.mag, d)
    IN  [neg |-> x.neg /\ q # Zero7, mag |-> q]

\* time.Millisecond, in nanoseconds
Millisecond == 1000000

----------------------------------------------------------------------------
(* pdata.AttributeValue and the plain values of attrValue *)

Nil == <<"nil", 0>>

\* pdata.AttributeValue.Type()
AttrType(value) == value[1]

\* Faulty variant: an empty array gives nil, as a slice that was never made
RECURSIVE attrValueMutNilForEmptyArray(_)
attrValueMutNilForEmptyArray(value) ==
    CASE AttrType(value) = "Int" -> <<"int64", value[2]>>
      [] AttrType(value) = "Bool" -> <<"bool", value[2]>>
      [] AttrType(value) = "Double" -> <<"float64", value[2]>>
      [] AttrType(value) = "String" -> <<"string", value[2]>>
      [] AttrType(value) = "Map" ->
            <<"map", [k \in DOMAIN value[2] |-> attrValueMutNilForEmptyArray(value[2][k])]>>
      [] AttrType(value) = "Array" ->
            IF Len(value[2]) = 0 THEN Nil
            ELSE <<"slice", [i \in 1..Len(value[2]) |->
                                attrValueMutNilForEmptyArray(value[2][i])]>>
      [] AttrType(value) = "Empty" -> Nil
      [] OTHER -> Nil

RECURSIVE attrValue(_)
attrValue(value) ==
    CASE AttrType(value) = "Int" -> <<"int64", value[2]>>
      [] AttrType(value) = "Bool" -> <<"bool", value[2]>>
      [] AttrType(value) = "Double" -> <<"float64", value[2]>>
      [] AttrType(value) = "String" -> <<"string", value[2]>>
      [] AttrType(value) = "Map" ->
            <<"map", [k \in DOMAIN value[2] |-> attrValue(value[2][k])]>>
      [] AttrType(value) = "Array" ->
            <<"slice", [i \in 1..Len(value[2]) |-> attrValue(value[2][i])]>>
      [] AttrType(value) = "Empty" -> Nil
      [] OTHER -> Nil

\* Faulty variant: an empty collection gives an empty map
attrsValueMutEmptyMap(attrs) ==
    <<"map", [k \in DOMAIN attrs |-> attrValue(attrs[k])]>>

\* attrs is a pdata.AttributeMap: a function from keys to AttributeValues
attrsValue(attrs) ==
    IF Cardinality(DOMAIN attrs) = 0 THEN Nil
    ELSE <<"map", [k \in DOMAIN attrs |-> attrValue(attrs[k])]>>

----------------------------------------------------------------------------
(* cwLogBody and its JSON encoding *)

HexDigits == <<"0", "1", "2", "3", "4", "5", "6", "7",
               "8", "9", "a", "b", "c", "d", "e", "f">>

\* TraceID.HexString / SpanID.HexString: two lower-case hex digits per byte
RECURSIVE HexString(_)
HexString(bytes) ==
    IF Len(bytes) = 0 THEN <<>>
    ELSE <<HexDigits[(Head(bytes) \div 16) + 1], HexDigits[(Head(bytes) % 16) + 1]>>
         \o HexString(Tail(bytes))

\* TraceID.IsEmpty / SpanID.IsEmpty: every byte is zero
IsEmpty(id) == \A i \in 1..Len(id) : id[i] = 0

\* The struct cwLogBody: each field with its static type
cwLogBodyFields ==
    {"name", "body", "severity_number", "severity_text", "dropped_attributes_count",
     "flags", "trace_id", "span_id", "attributes", "resource"}

\* The omitempty test of encoding/json for a field of the struct
isEmptyValue(v) ==
    CASE v[1] = "string" -> Len(v[2]) = 0
      [] v[1] \in {"int32", "uint32"} -> v[2] = 0
      [] v[1] = "interface" -> v[2] = Nil
      [] v[1] = "map" -> Cardinality(DOMAIN v[2]) = 0
      [] v[1] = "nil" -> TRUE

\* A value json.Marshal rejects: a float64 that is NaN or infinite, at any depth
RECURSIVE Unsupported(_)
Unsupported(v) ==
    CASE v[1] = "float64" -> v[2] \in {"NaN", "+Inf", "-Inf"}
      [] v[1] = "interface" -> Unsupported(v[2])
      [] v[1] \in {"map", "slice"} -> \E k \in DOMAIN v[2] : Unsupported(v[2][k])
      [] OTHER -> FALSE

\* The JSON value json.Marshal writes for a Go value
RECURSIVE jsonEncode(_)
jsonEncode(v) ==
    CASE v[1] = "string" -> <<"string", v[2]>>
      [] v[1] \in {"int32", "uint32", "int64"} -> <<"number", <<"int", v[2]>>>>
      [] v[1] = "float64" -> <<"number", <<"float", v[2]>>>>
      [] v[1] = "bool" -> <<"bool", v[2]>>
      [] v[1] = "interface" -> jsonEncode(v[2])
      [] v[1] = "map" -> <<"object", [k \in DOMAIN v[2] |-> jsonEncode(v[2][k])]>>
      [] v[1] = "slice" -> <<"array", [i \in DOMAIN v[2] |-> jsonEncode(v[2][i])]>>
      [] v[1] = "nil" -> <<"null", 0>>

\* Faulty variant: the omitempty tags are missing
jsonMarshalMutNoOmit(body) ==
    [err |-> \E f \in cwLogBodyFields : Unsupported(body[f]),
     obj |-> [f \in cwLogBodyFields |-> jsonEncode(body[f])]]

\* json.Marshal(body) of a cwLogBody: every field is tagged omitempty.
\* The result is the decoded JSON object: field name -> JSON value.
jsonMarshal(body) ==
    LET present == {f \in cwLogBodyFields : ~isEmptyValue(body[f])}
    IN  IF \E f \in present : Unsupported(body[f])
        THEN [err |-> TRUE, obj |-> <<>>]
        ELSE [err |-> FALSE, obj |-> [f \in present |-> jsonEncode(body[f])]]

\* Faulty variant: the identifiers are written without the IsEmpty tests
cwLogBodyMutAlwaysIds(resourceAttrs, log) ==
    [name |-> <<"string", log.Name>>,
     body |-> <<"interface", attrValue(log.Body)>>,
     severity_number |-> <<"int32", log.SeverityNumber>>,
     severity_text |-> <<"string", log.SeverityText>>,
     dropped_attributes_count |-> <<"uint32", log.DroppedAttributesCount>>,
     flags |-> <<"uint32", log.Flags>>,
     trace_id |-> <<"string", HexString(log.TraceID)>>,
     span_id |-> <<"string", HexString(log.SpanID)>>,
     attributes |-> attrsValue(log.Attributes),
     resource |-> resourceAttrs]

cwLogBody(resourceAttrs, log) ==
    [name |-> <<"string", log.Name>>,
     body |-> <<"interface", attrValue(log.Body)>>,
     severity_number |-> <<"int32", log.SeverityNumber>>,
     severity_text |-> <<"string", log.SeverityText>>,
     dropped_attributes_count |-> <<"uint32", log.DroppedAttributesCount>>,
     flags |-> <<"uint32", log.Flags>>,
     trace_id |-> <<"string", IF ~IsEmpty(log.TraceID) THEN HexString(log.TraceID) ELSE <<>> >>,
     span_id |-> <<"string", IF ~IsEmpty(log.SpanID) THEN HexString(log.SpanID) ELSE <<>> >>,
     attributes |-> attrsValue(log.Attributes),
     resource |-> resourceAttrs]

NoEvent == [Timestamp |-> [neg |-> FALSE, mag |-> Zero7], Message |-> <<>>]

\* int64(log.Timestamp()) / int64(time.Millisecond)
eventTimestamp(ts) == DivInt64(ToInt64(ts), Millisecond)

logToCWLog(resourceAttrs, log) ==
    LET m == jsonMarshal(cwLogBody(resourceAttrs, log))
    IN  IF m.err THEN [err |-> TRUE, event |-> NoEvent]
        ELSE [err |-> FALSE,
              event |-> [Timestamp |-> eventTimestamp(log.Timestamp),
                         Message |-> m.obj]]

----------------------------------------------------------------------------
(* logsToCWLogs: the three nested loops over the batch *)

\* Faulty variant: the loop stops at the first record that fails
RECURSIVE logsLoopMutBreak(_, _, _, _)
logsLoopMutBreak(resourceAttrs, logs, k, acc) ==
    IF k > Len(logs) THEN acc
    ELSE LET r == logToCWLog(resourceAttrs, logs[k])
         IN  IF r.err THEN [acc EXCEPT !.dropped = @ + 1]
             ELSE logsLoopMutBreak(resourceAttrs, logs, k + 1,
                                   [acc EXCEPT !.out = Append(@, r.event)])

\* for k := 0; k < logs.Len(); k++
RECURSIVE logsLoop(_, _, _, _)
logsLoop(resourceAttrs, logs, k, acc) ==
    IF k > Len(logs) THEN acc
    ELSE LET r == logToCWLog(resourceAttrs, logs[k])
         IN  logsLoop(resourceAttrs, logs, k + 1,
                      IF r.err THEN [acc EXCEPT !.dropped = @ + 1]
                      ELSE [acc EXCEPT !.out = Append(@, r.event)])

\* Faulty variant: the scope groups are walked from the last to the first
RECURSIVE illsLoopMutBackwards(_, _, _, _)
illsLoopMutBackwards(resourceAttrs, ills, j, acc) ==
    IF j > Len(ills) THEN acc
    ELSE illsLoopMutBackwards(resourceAttrs, ills, j + 1,
                              logsLoop(resourceAttrs, ills[Len(ills) + 1 - j], 1, acc))

\* for j := 0; j < ills.Len(); j++
RECURSIVE illsLoop(_, _, _, _)
illsLoop(resourceAttrs, ills, j, acc) ==
    IF j > Len(ills) THEN acc
    ELSE illsLoop(resourceAttrs, ills, j + 1, logsLoop(resourceAttrs, ills[j], 1, acc))

\* for i := 0; i < rls.Len(); i++
RECURSIVE rlsLoop(_, _, _)
rlsLoop(rls, i, acc) ==
    IF i > Len(rls) THEN acc
    ELSE rlsLoop(rls, i + 1,
                 illsLoop(attrsValue(rls[i].Attributes), rls[i].ILLs, 1, acc))

\* ld is the sequence of resource groups; the result is (out, dropped)
logsToCWLogs(ld) ==
    IF Len(ld) = 0 THEN [out |-> <<>>, dropped |-> 0]
    ELSE rlsLoop(ld, 1, [out |-> <<>>, dropped |-> 0])

----------------------------------------------------------------------------
(* The inputs tried *)

Scalars ==
    {<<"Int", 0>>, <<"Int", 7>>, <<"Bool", FALSE>>, <<"Bool", TRUE>>,
     <<"Double", "0">>, <<"Double", "1.5">>, <<"Double", "NaN">>,
     <<"String", <<>>>>, <<"String", <<"a">>>>, <<"Empty", 0>>, <<"Bytes", 0>>}

\* Attribute values nested to depth d
RECURSIVE AttrValues(_)
AttrValues(d) ==
    IF d = 0 THEN Scalars
    ELSE LET sub == AttrValues(d - 1)
         IN  Scalars
             \cup {<<"Map", m>> : m \in {<<>>} \cup {[k \in {"k"} |-> v] : v \in sub}}
             \cup {<<"Array", a>> : a \in {<<>>} \cup {<<v>> : v \in sub}}
             \cup {<<"Array", <<v, <<"Int", 7>>>>>> : v \in sub}

AttrMaps ==
    {<<>>,
     [k \in {"k"} |-> <<"String", <<"a">>>>],
     [k \in {"k"} |-> <<"Empty", 0>>],
     [k \in {"j", "k"} |-> IF k = "j" THEN <<"Int", 0>> ELSE <<"Array", <<>>>>]}

ResourceAttrMaps == {<<>>, [k \in {"r"} |-> <<"String", <<"h">>>>]}

TraceIDs == {[i \in 1..16 |-> 0], [i \in 1..16 |-> IF i = 16 THEN 171 ELSE i - 1]}
SpanIDs == {[i \in 1..8 |-> 0], [i \in 1..8 |-> IF i = 1 THEN 255 ELSE 0]}

Timestamps ==
    {<<0, 0, 0, 0, a, b, c>> : a \in {0, 1}, b \in {0, 499, 500, 999}, c \in {0, 999}}
    \cup {<<1, 700, 0, 0, 123, 456, 789>>,
          <<9, 223, 372, 36, 854, 775, 807>>,
          <<9, 223, 372, 36, 854, 775, 808>>,
          <<18, 446, 744, 73, 709, 551, 615>>}

BaseRecord ==
    [Name |-> <<"n">>, Body |-> <<"String", <<"a">>>>, SeverityNumber |-> 9,
     SeverityText |-> <<"I">>, DroppedAttributesCount |-> 0, Flags |-> 0,
     TraceID |-> [i \in 1..16 |-> 0], SpanID |-> [i \in 1..8 |-> 0],
     Attributes |-> <<>>, Timestamp |-> <<0, 0, 0, 0, 1, 500, 0>>]

\* The records tried on the translator: every combination of empty and
\* non-empty fields at one timestamp, and one record at every timestamp
LogRecords ==
    {[Name |-> n, Body |-> b, SeverityNumber |-> sn, SeverityText |-> st,
      DroppedAttributesCount |-> d, Flags |-> f, TraceID |-> t, SpanID |-> sp,
      Attributes |-> a, Timestamp |-> <<0, 0, 0, 0, 1, 500, 0>>] :
        n \in {<<>>, <<"n">>}, b \in AttrValues(AttrDepth), sn \in {0, 9},
        st \in {<<>>, <<"I">>}, d \in {0, 1}, f \in {0, 1},
        t \in TraceIDs, sp \in SpanIDs, a \in AttrMaps}
    \cup {[BaseRecord EXCEPT !.Timestamp = ts] : ts \in Timestamps}

\* The records of the batches: two that translate and one that does not
RecordA == BaseRecord
RecordB == [BaseRecord EXCEPT !.Body = <<"Int", 7>>, !.Timestamp = <<0, 0, 0, 0, 1, 999, 999>>]
RecordBad == [BaseRecord EXCEPT !.Body = <<"Array", <<<<"Double", "NaN">>>>>>]
BatchRecords == {RecordA, RecordBad}

\* Sequences of records of length at most n
RECURSIVE RecordSeqs(_)
RecordSeqs(n) ==
    IF n <= 0 THEN {<<>>}
    ELSE {<<>>} \cup {<<r>> \o s : r \in BatchRecords, s \in RecordSeqs(n - 1)}

\* Sequences of scope groups that hold, with the groups counted, at most n items
RECURSIVE IllSeqs(_)
IllSeqs(n) ==
    IF n <= 0 THEN {<<>>}
    ELSE {<<>>} \cup UNION {{<<logs>> \o rest : rest \in IllSeqs(n - 1 - Len(logs))} :
                              logs \in RecordSeqs(n - 1)}

RECURSIVE IllSize(_)
IllSize(ills) ==
    IF Len(ills) = 0 THEN 0 ELSE 1 + Len(Head(ills)) + IllSize(Tail(ills))

\* Batches that hold, with the groups counted, at most n items
RECURSIVE Batches(_)
Batches(n) ==
    IF n <= 0 THEN {<<>>}
    ELSE {<<>>} \cup UNION {{<<[Attributes |-> ra, ILLs |-> ills]>> \o rest :
                                ra \in {[k \in {"r"} |-> <<"String", <<"h">>>>]},
                                rest \in Batches(n - 1 - IllSize(ills))} :
                              ills \in IllSeqs(n - 1)}

RECURSIVE BatchSize(_)
BatchSize(ld) ==
    IF Len(ld) = 0 THEN 0 ELSE 1 + IllSize(Head(ld).ILLs) + BatchSize(Tail(ld))

\* The batches of the concurrent callers: one whose only record does not
\* translate, and one of three records of which the second does not translate
ConcurrentBatches ==
    {<<[Attributes |-> <<>>, ILLs |-> <<<<RecordBad>>>>]>>,
     <<[Attributes |-> <<>>, ILLs |-> <<<<RecordA, RecordBad>>, <<RecordB>>>>]>>}

\* The batch with its records told apart: the k-th record, counted from
\* after the first base records, is given the timestamp of k milliseconds,
\* and the i-th resource group the attribute r = i
StampLogs(logs, base) ==
    [k \in 1..Len(logs) |-> [logs[k] EXCEPT !.Timestamp = <<0, 0, 0, 0, base + k, 0, 0>>]]

RECURSIVE StampIlls(_, _)
StampIlls(ills, base) ==
    IF Len(ills) = 0 THEN <<>>
    ELSE <<StampLogs(Head(ills), base)>> \o StampIlls(Tail(ills), base + Len(Head(ills)))

RECURSIVE StampBatch(_, _, _)
StampBatch(ld, i, base) ==
    IF Len(ld) = 0 THEN <<>>
    ELSE <<[Attributes |-> [k \in {"r"} |-> <<"Int", i>>],
            ILLs |-> StampIlls(Head(ld).ILLs, base)]>>
         \o StampBatch(Tail(ld), i + 1, base + IllSize(Head(ld).ILLs) - Len(Head(ld).ILLs))

\* The batches of the calls made one at a time: those of at most n items, for
\* every n, with their records told apart
SequentialBatches ==
    LET all == Batches(MaxItems - 1)
    IN  [n \in 0..(MaxItems - 1) |-> {StampBatch(ld, 1, 0) : ld \in {b \in all : BatchSize(b) <= n}}]

Callers == 1..NumCallers

\* The destination of the exporter's Config
LogGroupName == "g1"
LogStreamName == "s1"

----------------------------------------------------------------------------
(* The exporter *)

IdleFrame ==
    [op |-> "none", ld |-> <<>>, streamToPusherMap |-> 0, logPusher |-> 0,
     logEvents |-> <<>>, next |-> 0, result |-> "nil"]

NoInput == [resource |-> <<>>, log |-> BaseRecord]
NoOutput == [done |-> FALSE, res |-> [err |-> FALSE, event |-> NoEvent]]

\* newCwLogsExporter: the registry starts empty
Init ==
    /\ config = <<LogGroupName, LogStreamName>>
    /\ seqTokenMu = 0
    /\ groupStreamToPusherMap = <<>>
    /\ streamMaps = <<>>
    /\ pushers = <<>>
    /\ pc = [p \in Callers |-> "idle"]
    /\ frame = [p \in Callers |-> IdleFrame]
    /\ fatal = FALSE
    /\ trace = <<>>
    /\ nitems = 0
    /\ xin = NoInput
    /\ xout = NoOutput

exporterVars == <<config, seqTokenMu, groupStreamToPusherMap, streamMaps, pushers,
                  pc, frame, fatal, trace, nitems>>

\* The call of a Pusher method, as the history keeps it
PusherCall(p, method, event, err) ==
    [caller |-> p, op |-> frame[p].op, method |-> method,
     pusher |-> frame[p].logPusher, event |-> event, err |-> err]

\* Callers are interchangeable: the next call is made by the first caller
\* that has made none
CanCall(p) == pc[p] = "idle" /\ \A q \in 1..(p - 1) : pc[q] # "idle"

\* A caller enters PushLogs
PushLogs(p, ld) ==
    /\ ~fatal
    /\ CanCall(p)
    /\ nitems' = nitems + 1 + BatchSize(ld)
    /\ frame' = [frame EXCEPT ![p] = [IdleFrame EXCEPT !.op = "PushLogs", !.ld = ld]]
    /\ pc' = [pc EXCEPT ![p] = "lock"]
    /\ UNCHANGED <<config, seqTokenMu, groupStreamToPusherMap, streamMaps, pushers,
                   fatal, trace, xin, xout>>

\* ConsumeLogs returns e.PushLogs(ctx, md)
ConsumeLogs(p, md) == PushLogs(p, md)

\* Faulty variant: the lock is taken without waiting for its holder
LockMutNoWait(p) ==
    /\ ~fatal
    /\ pc[p] = "lock"
    /\ seqTokenMu' = p
    /\ pc' = [pc EXCEPT ![p] = "getGroup"]
    /\ UNCHANGED <<config, groupStreamToPusherMap, streamMaps, pushers, frame, fatal,
                   trace, nitems, xin, xout>>

\* e.seqTokenMu.Lock()
Lock(p) ==
    /\ ~fatal
    /\ pc[p] = "lock"
    /\ seqTokenMu = 0
    /\ seqTokenMu' = p
    /\ pc' = [pc EXCEPT ![p] = "getGroup"]
    /\ UNCHANGED <<config, groupStreamToPusherMap, streamMaps, pushers, frame, fatal,
                   trace, nitems, xin, xout>>

\* getLogPusher: streamToPusherMap, ok = e.groupStreamToPusherMap[logGroup]
GetGroup(p) ==
    /\ ~fatal
    /\ pc[p] = "getGroup"
    /\ IF config[1] \in DOMAIN groupStreamToPusherMap
       THEN /\ frame' = [frame EXCEPT ![p].streamToPusherMap =
                                          groupStreamToPusherMap[config[1]]]
            /\ pc' = [pc EXCEPT ![p] = "getStream"]
       ELSE /\ frame' = frame
            /\ pc' = [pc EXCEPT ![p] = "putGroup"]
    /\ UNCHANGED <<config, seqTokenMu, groupStreamToPusherMap, streamMaps, pushers,
                   fatal, trace, nitems, xin, xout>>

\* getLogPusher: a new stream map is made and stored under logGroup
PutGroup(p) ==
    /\ ~fatal
    /\ pc[p] = "putGroup"
    /\ streamMaps' = Append(streamMaps, <<>>)
    /\ groupStreamToPusherMap' =
           [g \in DOMAIN groupStreamToPusherMap \cup {config[1]} |->
               IF g = config[1] THEN Len(streamMaps) + 1 ELSE groupStreamToPusherMap[g]]
    /\ frame' = [frame EXCEPT ![p].streamToPusherMap = Len(streamMaps) + 1]
    /\ pc' = [pc EXCEPT ![p] = "getStream"]
    /\ UNCHANGED <<config, seqTokenMu, pushers, fatal, trace, nitems, xin, xout>>

\* Where getLogPusher returns to
AfterGetLogPusher(p) == IF frame[p].op = "PushLogs" THEN "translate" ELSE "shutdownFlush"

\* getLogPusher: logPusher, ok = streamToPusherMap[logStream]
GetStream(p) ==
    /\ ~fatal
    /\ pc[p] = "getStream"
    /\ LET m == streamMaps[frame[p].streamToPusherMap]
       IN  IF config[2] \in DOMAIN m
           THEN /\ frame' = [frame EXCEPT ![p].logPusher = m[config[2]]]
                /\ pc' = [pc EXCEPT ![p] = AfterGetLogPusher(p)]
           ELSE /\ frame' = frame
                /\ pc' = [pc EXCEPT ![p] = "newPusher"]
    /\ UNCHANGED <<config, seqTokenMu, groupStreamToPusherMap, streamMaps, pushers,
                   fatal, trace, nitems, xin, xout>>

\* Faulty variant: the stream of the key is taken from the call, not from the Config
NewPusherMutKeyByCaller(p) ==
    /\ ~fatal
    /\ pc[p] = "newPusher"
    /\ LET logStream == IF p = 1 THEN config[2] ELSE "s2"
           ref == frame[p].streamToPusherMap
           m == streamMaps[ref]
       IN  /\ pushers' = Append(pushers, <<config[1], logStream>>)
           /\ streamMaps' = [streamMaps EXCEPT ![ref] =
                                 [s \in DOMAIN m \cup {logStream} |->
                                     IF s = logStream THEN Len(pushers) + 1 ELSE m[s]]]
    /\ frame' = [frame EXCEPT ![p].logPusher = Len(pushers) + 1]
    /\ pc' = [pc EXCEPT ![p] = AfterGetLogPusher(p)]
    /\ UNCHANGED <<config, seqTokenMu, groupStreamToPusherMap, fatal, trace, nitems, xin, xout>>

\* getLogPusher: cwlogs.NewPusher, stored under logStream
NewPusher(p) ==
    /\ ~fatal
    /\ pc[p] = "newPusher"
    /\ pushers' = Append(pushers, config)
    /\ LET ref == frame[p].streamToPusherMap
           m == streamMaps[ref]
       IN  streamMaps' = [streamMaps EXCEPT ![ref] =
                             [s \in DOMAIN m \cup {config[2]} |->
                                 IF s = config[2] THEN Len(pushers) + 1 ELSE m[s]]]
    /\ frame' = [frame EXCEPT ![p].logPusher = Len(pushers) + 1]
    /\ pc' = [pc EXCEPT ![p] = AfterGetLogPusher(p)]
    /\ UNCHANGED <<config, seqTokenMu, groupStreamToPusherMap, fatal, trace, nitems, xin, xout>>

RegistryReads == {"getGroup", "getStream"}
RegistryWrites == {"putGroup", "newPusher"}

\* Two accesses of the registry's maps run at once and one of them writes: the
\* runtime may stop the process ("concurrent map read and map write")
MapFault(p) ==
    /\ ~fatal
    /\ pc[p] \in RegistryWrites
    /\ \E q \in Callers \ {p} : pc[q] \in RegistryReads \cup RegistryWrites
    /\ fatal' = TRUE
    /\ UNCHANGED <<config, seqTokenMu, groupStreamToPusherMap, streamMaps, pushers,
                   pc, frame, trace, nitems, xin, xout>>

\* Faulty variant: a batch with no event is reported as an error
TranslateMutErrorOnEmpty(p) ==
    /\ ~fatal
    /\ pc[p] = "translate"
    /\ LET logEvents == logsToCWLogs(frame[p].ld).out
       IN  IF Len(logEvents) = 0
           THEN /\ frame' = [frame EXCEPT ![p].logEvents = logEvents, ![p].result = "ErrEmpty"]
                /\ pc' = [pc EXCEPT ![p] = "unlock"]
           ELSE /\ frame' = [frame EXCEPT ![p].logEvents = logEvents, ![p].next = 1]
                /\ pc' = [pc EXCEPT ![p] = "append"]
    /\ UNCHANGED <<config, seqTokenMu, groupStreamToPusherMap, streamMaps, pushers,
                   fatal, trace, nitems, xin, xout>>

\* Faulty variant: with no event the call goes on to the flush
TranslateMutNoEarlyReturn(p) ==
    /\ ~fatal
    /\ pc[p] = "translate"
    /\ LET logEvents == logsToCWLogs(frame[p].ld).out
       IN  IF Len(logEvents) = 0
           THEN /\ frame' = [frame EXCEPT ![p].logEvents = logEvents]
                /\ pc' = [pc EXCEPT ![p] = "flush"]
           ELSE /\ frame' = [frame EXCEPT ![p].logEvents = logEvents, ![p].next = 1]
                /\ pc' = [pc EXCEPT ![p] = "append"]
    /\ UNCHANGED <<config, seqTokenMu, groupStreamToPusherMap, streamMaps, pushers,
                   fatal, trace, nitems, xin, xout>>

\* logEvents, _ := logsToCWLogs(e.logger, ld); if len(logEvents) == 0 { return nil }
Translate(p) ==
    /\ ~fatal
    /\ pc[p] = "translate"
    /\ LET logEvents == logsToCWLogs(frame[p].ld).out
       IN  IF Len(logEvents) = 0
           THEN /\ frame' = [frame EXCEPT ![p].logEvents = logEvents, ![p].result = "nil"]
                /\ pc' = [pc EXCEPT ![p] = "unlock"]
           ELSE /\ frame' = [frame EXCEPT ![p].logEvents = logEvents, ![p].next = 1]
                /\ pc' = [pc EXCEPT ![p] = "append"]
    /\ UNCHANGED <<config, seqTokenMu, groupStreamToPusherMap, streamMaps, pushers,
                   fatal, trace, nitems, xin, xout>>

\* Faulty variant: an AddLogEntry error ends the call and is returned
AddLogEntryMutAbort(p) ==
    /\ ~fatal
    /\ pc[p] = "append"
    /\ \E err \in {"nil", "ErrAdd"} :
          /\ trace' = Append(trace, PusherCall(p, "AddLogEntry",
                                               frame[p].logEvents[frame[p].next], err))
          /\ frame' = [frame EXCEPT ![p].next = @ + 1,
                                    ![p].result = IF err # "nil" THEN err ELSE @]
          /\ pc' = [pc EXCEPT ![p] =
                       IF err # "nil" THEN "unlock"
                       ELSE IF frame[p].next = Len(frame[p].logEvents) THEN "flush"
                       ELSE "append"]
    /\ UNCHANGED <<config, seqTokenMu, groupStreamToPusherMap, streamMaps, pushers,
                   fatal, nitems, xin, xout>>

\* One turn of the loop: cwLogsPusher.AddLogEntry(logEvent); an error is logged
AddLogEntry(p) ==
    /\ ~fatal
    /\ pc[p] = "append"
    /\ \E err \in {"nil", "ErrAdd"} :
          trace' = Append(trace, PusherCall(p, "AddLogEntry",
                                            frame[p].logEvents[frame[p].next], err))
    /\ frame' = [frame EXCEPT ![p].next = @ + 1]
    /\ pc' = [pc EXCEPT ![p] =
                 IF frame[p].next = Len(frame[p].logEvents) THEN "flush" ELSE "append"]
    /\ UNCHANGED <<config, seqTokenMu, groupStreamToPusherMap, streamMaps, pushers,
                   fatal, nitems, xin, xout>>

\* Faulty variant: the flush error is dropped
ForceFlushMutSwallow(p) ==
    /\ ~fatal
    /\ pc[p] = "flush"
    /\ \E flushErr \in {"nil", "ErrFlush"} :
          /\ trace' = Append(trace, PusherCall(p, "ForceFlush", NoEvent, flushErr))
          /\ frame' = [frame EXCEPT ![p].result = "nil"]
    /\ pc' = [pc EXCEPT ![p] = "unlock"]
    /\ UNCHANGED <<config, seqTokenMu, groupStreamToPusherMap, streamMaps, pushers,
                   fatal, nitems, xin, xout>>

\* Faulty variant: after an AddLogEntry error the call returns without the flush
ForceFlushMutSkipAfterFailure(p) ==
    /\ ~fatal
    /\ pc[p] = "flush"
    /\ IF \E i \in 1..Len(trace) : trace[i].caller = p /\ trace[i].err # "nil"
       THEN /\ trace' = trace
            /\ frame' = [frame EXCEPT ![p].result = "nil"]
       ELSE \E flushErr \in {"nil", "ErrFlush"} :
               /\ trace' = Append(trace, PusherCall(p, "ForceFlush", NoEvent, flushErr))
               /\ frame' = [frame EXCEPT ![p].result = flushErr]
    /\ pc' = [pc EXCEPT ![p] = "unlock"]
    /\ UNCHANGED <<config, seqTokenMu, groupStreamToPusherMap, streamMaps, pushers,
                   fatal, nitems, xin, xout>>

\* flushErr := cwLogsPusher.ForceFlush(); the result of PushLogs is flushErr
ForceFlush(p) ==
    /\ ~fatal
    /\ pc[p] = "flush"
    /\ \E flushErr \in {"nil", "ErrFlush"} :
          /\ trace' = Append(trace, PusherCall(p, "ForceFlush", NoEvent, flushErr))
          /\ frame' = [frame EXCEPT ![p].result = flushErr]
    /\ pc' = [pc EXCEPT ![p] = "unlock"]
    /\ UNCHANGED <<config, seqTokenMu, groupStreamToPusherMap, streamMaps, pushers,
                   fatal, nitems, xin, xout>>

\* What is left of a call that returned: its result
Returned(f, result) == [IdleFrame EXCEPT !.op = f.op, !.result = result]

\* PushLogs returns: the deferred e.seqTokenMu.Unlock() runs
Unlock(p) ==
    /\ ~fatal
    /\ pc[p] = "unlock"
    /\ seqTokenMu' = 0
    /\ frame' = [frame EXCEPT ![p] = Returned(frame[p], frame[p].result)]
    /\ pc' = [pc EXCEPT ![p] = "done"]
    /\ UNCHANGED <<config, groupStreamToPusherMap, streamMaps, pushers, fatal,
                   trace, nitems, xin, xout>>

\* A caller enters Shutdown: getLogPusher is called without the lock
Shutdown(p) ==
    /\ ~fatal
    /\ CanCall(p)
    /\ nitems' = nitems + 1
    /\ frame' = [frame EXCEPT ![p] = [IdleFrame EXCEPT !.op = "Shutdown"]]
    /\ pc' = [pc EXCEPT ![p] = "getGroup"]
    /\ UNCHANGED <<config, seqTokenMu, groupStreamToPusherMap, streamMaps, pushers,
                   fatal, trace, xin, xout>>

\* Faulty variant: Shutdown returns the error of the flush
ShutdownFlushMutReturnErr(p) ==
    /\ ~fatal
    /\ pc[p] = "shutdownFlush"
    /\ \E err \in {"nil", "ErrFlush"} :
          /\ trace' = Append(trace, PusherCall(p, "ForceFlush", NoEvent, err))
          /\ frame' = [frame EXCEPT ![p] = Returned(frame[p], err)]
    /\ pc' = [pc EXCEPT ![p] = "done"]
    /\ UNCHANGED <<config, seqTokenMu, groupStreamToPusherMap, streamMaps, pushers,
                   fatal, nitems, xin, xout>>

\* Shutdown: logPusher.ForceFlush(); return nil
ShutdownFlush(p) ==
    /\ ~fatal
    /\ pc[p] = "shutdownFlush"
    /\ \E err \in {"nil", "ErrFlush"} :
          trace' = Append(trace, PusherCall(p, "ForceFlush", NoEvent, err))
    /\ frame' = [frame EXCEPT ![p] = Returned(frame[p], "nil")]
    /\ pc' = [pc EXCEPT ![p] = "done"]
    /\ UNCHANGED <<config, seqTokenMu, groupStreamToPusherMap, streamMaps, pushers,
                   fatal, nitems, xin, xout>>

\* Start returns nil
Start(p) ==
    /\ ~fatal
    /\ CanCall(p)
    /\ nitems' = nitems + 1
    /\ frame' = [frame EXCEPT ![p] = [IdleFrame EXCEPT !.op = "Start"]]
    /\ pc' = [pc EXCEPT ![p] = "done"]
    /\ UNCHANGED <<config, seqTokenMu, groupStreamToPusherMap, streamMaps, pushers,
                   fatal, trace, xin, xout>>

\* One step of a call in progress
Step(p) ==
    \/ Lock(p)
    \/ GetGroup(p)
    \/ PutGroup(p)
    \/ GetStream(p)
    \/ NewPusher(p)
    \/ Translate(p)
    \/ AddLogEntry(p)
    \/ ForceFlush(p)
    \/ Unlock(p)
    \/ ShutdownFlush(p)

\* Concurrent callers of one exporter
Next ==
    \/ \E p \in Callers, ld \in ConcurrentBatches : PushLogs(p, ld)
    \/ \E p \in Callers, md \in ConcurrentBatches : ConsumeLogs(p, md)
    \/ \E p \in Callers : Shutdown(p)
    \/ \E p \in Callers : Start(p)
    \/ \E p \in Callers : Step(p)
    \/ \E p \in Callers : MapFault(p)

Spec == Init /\ [][Next]_vars

\* Concurrent callers under fair scheduling: a call in progress whose next
\* statement can run does run; the Pusher calls return
SpecFair == Init /\ [][Next]_vars /\ \A p \in Callers : WF_vars(Step(p))

\* No call is in progress, and one more may be made
Quiet == nitems < MaxItems /\ \A q \in Callers : pc[q] \in {"idle", "done"}

\* One call at a time, on batches of every shape
NextSeq ==
    \/ /\ Quiet
       /\ \E p \in Callers, ld \in SequentialBatches[MaxItems - nitems - 1] :
             PushLogs(p, ld)
    \/ /\ Quiet
       /\ \E p \in Callers, md \in SequentialBatches[MaxItems - nitems - 1] :
             ConsumeLogs(p, md)
    \/ Quiet /\ \E p \in Callers : Shutdown(p)
    \/ Quiet /\ \E p \in Callers : Start(p)
    \/ \E p \in Callers : Step(p)

SpecSeq == Init /\ [][NextSeq]_vars

\* The translator alone, on every record tried
InitXlate ==
    /\ config = <<LogGroupName, LogStreamName>>
    /\ seqTokenMu = 0
    /\ groupStreamToPusherMap = <<>>
    /\ streamMaps = <<>>
    /\ pushers = <<>>
    /\ pc = [p \in Callers |-> "idle"]
    /\ frame = [p \in Callers |-> IdleFrame]
    /\ fatal = FALSE
    /\ trace = <<>>
    /\ nitems = 0
    /\ xin \in {[resource |-> ra, log |-> r] : ra \in ResourceAttrMaps, r \in LogRecords}
    /\ xout = NoOutput

\* event, err := logToCWLog(resourceAttrs, log), with resourceAttrs flattened
\* as logsToCWLogs does
TranslateRecord ==
    /\ ~xout.done
    /\ xout' = [done |-> TRUE, res |-> logToCWLog(attrsValue(xin.resource), xin.log)]
    /\ UNCHANGED <<exporterVars, xin>>

NextXlate == TranslateRecord

SpecXlate == InitXlate /\ [][NextXlate]_vars

----------------------------------------------------------------------------
(* Properties of the concurrent callers *)

\* The Pusher calls made by caller p, in order
CallsOf(p) == SelectSeq(trace, LAMBDA e : e.caller = p)

\* The destination of a Pusher call
DestOf(e) == pushers[e.pusher]

\* Caller p is inside PushLogs after its first Pusher call and before its return
InSequence(p) ==
    /\ frame[p].op = "PushLogs"
    /\ pc[p] \in {"append", "flush", "unlock"}
    /\ Len(CallsOf(p)) > 0

\* C1: the append/flush sequences of two PushLogs (or ConsumeLogs) calls never
\* interleave: no Pusher call of one PushLogs call lies between two Pusher calls
\* of another, nor after the first Pusher call of one that has not returned
PushLogsSequencesDoNotInterleave ==
    /\ \A i \in 1..Len(trace) :
          trace[i].op = "PushLogs" =>
              \A k \in (i + 2)..Len(trace) :
                  trace[i].caller = trace[k].caller =>
                      \A j \in (i + 1)..(k - 1) :
                          trace[j].op = "PushLogs" => trace[j].caller = trace[i].caller
    /\ \A p \in Callers :
          InSequence(p) =>
              \A i, j \in 1..Len(trace) :
                  (i < j /\ trace[i].caller = p /\ trace[j].op = "PushLogs")
                  => trace[j].caller = p

\* Two PushLogs calls have both appended two events and flushed
TwoPushLogsSequencesDone ==
    \E p, q \in Callers :
        /\ p # q
        /\ pc[p] = "done" /\ pc[q] = "done"
        /\ frame[p].op = "PushLogs" /\ frame[q].op = "PushLogs"
        /\ Len(CallsOf(p)) = 3 /\ Len(CallsOf(q)) = 3

\* C2: at most one append/flush sequence is in flight for a destination, whatever
\* the entry point: no Pusher call of one caller on a destination lies between two
\* Pusher calls of another caller on it, nor after the first Pusher call of a
\* PushLogs call that has not returned
OneSequenceInFlight ==
    /\ \A i, j, k \in 1..Len(trace) :
          (/\ i < j /\ j < k
           /\ trace[i].caller = trace[k].caller
           /\ DestOf(trace[j]) = DestOf(trace[i]))
          => trace[j].caller = trace[i].caller
    /\ \A p \in Callers :
          InSequence(p) =>
              \A i, j \in 1..Len(trace) :
                  (i < j /\ trace[i].caller = p /\ DestOf(trace[j]) = DestOf(trace[i]))
                  => trace[j].caller = p

\* C3: a Pusher is constructed at most once per (group, stream) key, the key is
\* never rebound, and the registry keeps every Pusher constructed
OnePusherPerKey ==
    /\ \A i, j \in 1..Len(pushers) : pushers[i] = pushers[j] => i = j
    /\ \A i \in 1..Len(pushers) :
          /\ pushers[i][1] \in DOMAIN groupStreamToPusherMap
          /\ LET m == streamMaps[groupStreamToPusherMap[pushers[i][1]]]
             IN  pushers[i][2] \in DOMAIN m /\ m[pushers[i][2]] = i

\* C4: every access of the registry (the lookups and the insertions of
\* getLogPusher) is made by a caller that holds seqTokenMu
RegistryAccessUnderLock ==
    \A p \in Callers :
        pc[p] \in RegistryReads \cup RegistryWrites => seqTokenMu = p

\* C19: PushLogs releases seqTokenMu on every return path, so no call that has
\* returned holds it; and under fair scheduling, with Pusher calls that return,
\* every PushLogs call that has been made acquires the lock and returns
LockReleasedAndPushLogsCompletes ==
    /\ [](\A p \in Callers :
            (frame[p].op = "PushLogs" /\ pc[p] = "done") => seqTokenMu # p)
    /\ \A p \in Callers :
          (frame[p].op = "PushLogs" /\ pc[p] = "lock")
              ~> (frame[p].op = "PushLogs" /\ pc[p] = "done")

----------------------------------------------------------------------------
(* Properties of one PushLogs call *)

\* Caller p is about to return from PushLogs, or has returned
Returning(p) == frame[p].op = "PushLogs" /\ pc[p] \in {"unlock", "done"}

\* Caller p is about to return from PushLogs: its batch is still at hand
AtReturn(p) == frame[p].op = "PushLogs" /\ pc[p] = "unlock"

\* Caller p is inside PushLogs
Running(p) == frame[p].op = "PushLogs" /\ pc[p] \notin {"idle", "done"}

AppendsOf(p) == SelectSeq(CallsOf(p), LAMBDA e : e.method = "AddLogEntry")
FlushesOf(p) == SelectSeq(CallsOf(p), LAMBDA e : e.method = "ForceFlush")

\* The records of a batch with the attributes of their resource, in the order
\* of the batch
RECURSIVE Concat(_)
Concat(seqs) == IF Len(seqs) = 0 THEN <<>> ELSE Head(seqs) \o Concat(Tail(seqs))

RecordsOf(ld) ==
    Concat([i \in 1..Len(ld) |->
               LET logs == Concat(ld[i].ILLs)
               IN  [k \in 1..Len(logs) |-> [resource |-> ld[i].Attributes, log |-> logs[k]]]])

\* The record fails translation: its body cannot be written as JSON
Fails(r) == logToCWLog(attrsValue(r.resource), r.log).err

\* C5: PushLogs returns a non-nil error exactly when it called ForceFlush and
\* ForceFlush failed, and the error is the one ForceFlush gave; failures of
\* translation and of AddLogEntry never make the result non-nil
ResultIsFlushError ==
    \A p \in Callers :
        Returning(p) =>
            /\ frame[p].result # "nil" <=>
                   \E i \in 1..Len(FlushesOf(p)) : FlushesOf(p)[i].err # "nil"
            /\ frame[p].result # "nil" =>
                   \E i \in 1..Len(FlushesOf(p)) : FlushesOf(p)[i].err = frame[p].result

\* PushLogs returned the flush error after an AddLogEntry had failed too
FlushErrorReturned ==
    \E p \in Callers :
        /\ frame[p].op = "PushLogs" /\ pc[p] = "done"
        /\ frame[p].result = "ErrFlush"
        /\ \E i \in 1..Len(AppendsOf(p)) : AppendsOf(p)[i].err # "nil"

\* C6: a PushLogs call whose batch has no resource group, or whose every record
\* fails translation, calls neither AddLogEntry nor ForceFlush and returns nil
NothingToPushCallsNothing ==
    \A p \in Callers :
        (Running(p) /\ \A i \in 1..Len(RecordsOf(frame[p].ld)) : Fails(RecordsOf(frame[p].ld)[i]))
        => /\ Len(CallsOf(p)) = 0
           /\ pc[p] \notin {"append", "flush"}
           /\ AtReturn(p) => frame[p].result = "nil"

\* PushLogs is about to return on a batch of two records that both failed translation
AllRecordsFailed ==
    \E p \in Callers :
        /\ AtReturn(p)
        /\ Len(RecordsOf(frame[p].ld)) = 2
        /\ \A i \in 1..2 : Fails(RecordsOf(frame[p].ld)[i])

\* C7: of the N records of a batch, the F that fail translation are dropped and
\* the other N - F are translated in order, whatever the place of the failing
\* ones; PushLogs calls AddLogEntry N - F times, and returns nil when the flush
\* succeeds
PartialFailureKeepsTheRest ==
    \A p \in Callers :
        AtReturn(p) =>
            LET recs == RecordsOf(frame[p].ld)
                good == SelectSeq(recs, LAMBDA r : ~Fails(r))
                res == logsToCWLogs(frame[p].ld)
            IN  /\ Len(res.out) = Len(good)
                /\ res.dropped = Len(recs) - Len(good)
                /\ \A i \in 1..Len(good) :
                      res.out[i] = logToCWLog(attrsValue(good[i].resource), good[i].log).event
                /\ Len(AppendsOf(p)) = Len(good)
                /\ (\A i \in 1..Len(FlushesOf(p)) : FlushesOf(p)[i].err = "nil")
                       => frame[p].result = "nil"

\* PushLogs is about to return nil on a batch of five records of which only
\* the third failed translation
FiveRecordsThirdFails ==
    \E p \in Callers :
        /\ AtReturn(p)
        /\ frame[p].result = "nil"
        /\ LET recs == RecordsOf(frame[p].ld)
           IN  /\ Len(recs) = 5
               /\ \A i \in 1..5 : Fails(recs[i]) <=> i = 3
        /\ Len(AppendsOf(p)) = 4
        /\ Len(FlushesOf(p)) = 1

\* C8: when AddLogEntry fails for an event, PushLogs still calls AddLogEntry once
\* for each of the events after it and then ForceFlush, and calls AddLogEntry
\* for the failed event no second time
AppendFailureDoesNotAbort ==
    \A p \in Callers :
        (AtReturn(p) /\ \E i \in 1..Len(AppendsOf(p)) : AppendsOf(p)[i].err # "nil")
        => LET calls == CallsOf(p)
               n == Len(frame[p].logEvents)
           IN  /\ Len(calls) = n + 1
               /\ \A i \in 1..n :
                     calls[i].method = "AddLogEntry" /\ calls[i].event = frame[p].logEvents[i]
               /\ calls[n + 1].method = "ForceFlush"

\* PushLogs is about to return after the first of three AddLogEntry calls failed
FirstAppendFailed ==
    \E p \in Callers :
        /\ AtReturn(p)
        /\ Len(AppendsOf(p)) = 3
        /\ AppendsOf(p)[1].err # "nil"

\* The events of the records of a batch that translate, in the order of the
\* batch: resource group, then scope group, then record
EventsInOrder(ld) ==
    LET good == SelectSeq(RecordsOf(ld), LAMBDA r : ~Fails(r))
    IN  [i \in 1..Len(good) |-> logToCWLog(attrsValue(good[i].resource), good[i].log).event]

\* C16: the AddLogEntry calls of a PushLogs call are made in the order of the
\* batch (resource group, then scope group, then record, without the records
\* that failed translation), and ForceFlush is called once, after the last
\* AddLogEntry, never before or between the AddLogEntry calls
AppendsInBatchOrderThenOneFlush ==
    \A p \in Callers :
        /\ (Running(p) /\ pc[p] \in {"append", "flush"}) =>
               /\ Len(FlushesOf(p)) = 0
               /\ LET want == EventsInOrder(frame[p].ld)
                  IN  \A i \in 1..Len(CallsOf(p)) :
                          i <= Len(want) /\ CallsOf(p)[i].event = want[i]
        /\ (AtReturn(p) /\ Len(frame[p].logEvents) > 0) =>
               LET want == EventsInOrder(frame[p].ld)
                   calls == CallsOf(p)
               IN  /\ Len(calls) = Len(want) + 1
                   /\ \A i \in 1..Len(want) :
                         calls[i].method = "AddLogEntry" /\ calls[i].event = want[i]
                   /\ calls[Len(want) + 1].method = "ForceFlush"

\* PushLogs is about to return on a batch of two resource groups of one scope
\* group each, with three records of which the second failed translation: the
\* two events appended, one of each resource group, are different
TwoDifferentEventsAppended ==
    \E p \in Callers :
        /\ AtReturn(p)
        /\ Len(frame[p].ld) = 2
        /\ \A i \in 1..2 : Len(frame[p].ld[i].ILLs) = 1
        /\ Len(frame[p].ld[1].ILLs[1]) = 2
        /\ LET recs == RecordsOf(frame[p].ld)
           IN  Len(recs) = 3 /\ \A i \in 1..3 : Fails(recs[i]) <=> i = 2
        /\ Len(AppendsOf(p)) = 2
        /\ AppendsOf(p)[1].event # AppendsOf(p)[2].event
        /\ Len(FlushesOf(p)) = 1

----------------------------------------------------------------------------
(* Properties of the translator *)

\* logToCWLog has produced an event for the record xin
Translated == xout.done /\ ~xout.res.err

\* C9: the timestamp of the event is the nanosecond timestamp of the record
\* divided by 1,000,000 and truncated, over the whole range of the unsigned
\* 64-bit timestamp
TimestampIsNanosecondsOverMillion ==
    Translated =>
        xout.res.event.Timestamp =
            [neg |-> FALSE, mag |-> LimbDiv(xin.log.Timestamp, Millisecond)]

\* The JSON values that are null, zero, the empty string, false or an empty container
JsonEmptyValues ==
    {<<"null", 0>>, <<"number", <<"int", 0>>>>, <<"number", <<"float", "0">>>>,
     <<"string", <<>>>>, <<"bool", FALSE>>, <<"object", <<>>>>, <<"array", <<>>>>}

\* The attribute value is empty or zero
IsZeroAttr(v) ==
    \/ AttrType(v) \in {"Empty", "Bytes"}
    \/ AttrType(v) = "Int" /\ v[2] = 0
    \/ AttrType(v) = "Double" /\ v[2] = "0"
    \/ AttrType(v) = "Bool" /\ ~v[2]
    \/ AttrType(v) \in {"String", "Map", "Array"} /\ Cardinality(DOMAIN v[2]) = 0

\* The fields of the message other than body whose source is not empty or zero
NonEmptySources ==
    {f \in cwLogBodyFields \ {"body"} :
        CASE f = "name" -> Len(xin.log.Name) > 0
          [] f = "severity_number" -> xin.log.SeverityNumber # 0
          [] f = "severity_text" -> Len(xin.log.SeverityText) > 0
          [] f = "dropped_attributes_count" -> xin.log.DroppedAttributesCount # 0
          [] f = "flags" -> xin.log.Flags # 0
          [] f = "trace_id" -> \E i \in 1..Len(xin.log.TraceID) : xin.log.TraceID[i] # 0
          [] f = "span_id" -> \E i \in 1..Len(xin.log.SpanID) : xin.log.SpanID[i] # 0
          [] f = "attributes" -> Cardinality(DOMAIN xin.log.Attributes) > 0
          [] f = "resource" -> Cardinality(DOMAIN xin.resource) > 0}

\* C10, as claimed: the fields of the message are exactly those whose source is
\* not empty or zero, and none is written as null, zero, "", false or an empty
\* container
FieldsAreTheNonEmptySources ==
    Translated =>
        LET msg == xout.res.event.Message
        IN  /\ DOMAIN msg =
                  NonEmptySources \cup (IF IsZeroAttr(xin.log.Body) THEN {} ELSE {"body"})
            /\ \A f \in DOMAIN msg : msg[f] \notin JsonEmptyValues

\* C10, amended: the fields of the message other than body are exactly those
\* whose source is not empty or zero, and none of them is written as null,
\* zero, "", false or an empty container; body is written whenever the body of
\* the record is a string, integer, double, boolean, map or array, whatever its
\* value, and never as null
FieldsAreTheNonEmptySourcesAndAnyBody ==
    Translated =>
        LET msg == xout.res.event.Message
        IN  /\ DOMAIN msg =
                  NonEmptySources
                  \cup (IF AttrType(xin.log.Body) \in
                              {"String", "Int", "Double", "Bool", "Map", "Array"}
                        THEN {"body"} ELSE {})
            /\ \A f \in DOMAIN msg \ {"body"} : msg[f] \notin JsonEmptyValues
            /\ "body" \in DOMAIN msg => msg["body"] # <<"null", 0>>

\* A record whose body is the integer 0 and whose other fields are all empty
\* was translated: the message holds the body alone
ZeroBodyTranslated ==
    /\ Translated
    /\ xin.log.Body = <<"Int", 0>>
    /\ NonEmptySources = {}
    /\ DOMAIN xout.res.event.Message = {"body"}

\* The value of a hex digit
HexVal(c) == CHOOSE n \in 0..15 : HexDigits[n + 1] = c

\* The string s is the lower-case hex encoding of the bytes of id
IsHexOf(s, id) ==
    /\ Len(s) = 2 * Len(id)
    /\ \A i \in 1..Len(s) : \E n \in 1..16 : HexDigits[n] = s[i]
    /\ \A i \in 1..Len(id) : 16 * HexVal(s[2 * i - 1]) + HexVal(s[2 * i]) = id[i]

\* C11: the message of a record whose trace identifier is empty (all bytes zero)
\* has no trace_id field, and that of a record whose span identifier is empty
\* has no span_id field; when the identifier is not empty the field is there
\* and is the string of its hex encoding
IdFieldsAreHexOfNonEmptyIds ==
    Translated =>
        LET msg == xout.res.event.Message
            traceEmpty == \A i \in 1..Len(xin.log.TraceID) : xin.log.TraceID[i] = 0
            spanEmpty == \A i \in 1..Len(xin.log.SpanID) : xin.log.SpanID[i] = 0
        IN  /\ traceEmpty => "trace_id" \notin DOMAIN msg
            /\ spanEmpty => "span_id" \notin DOMAIN msg
            /\ ~traceEmpty =>
                   /\ "trace_id" \in DOMAIN msg
                   /\ msg["trace_id"][1] = "string"
                   /\ IsHexOf(msg["trace_id"][2], xin.log.TraceID)
            /\ ~spanEmpty =>
                   /\ "span_id" \in DOMAIN msg
                   /\ msg["span_id"][1] = "string"
                   /\ IsHexOf(msg["span_id"][2], xin.log.SpanID)

\* A record with a trace identifier and no span identifier was translated:
\* the message has the 32 hex digits of the one and no field for the other
TraceIdWithoutSpanIdTranslated ==
    /\ Translated
    /\ \E i \in 1..Len(xin.log.TraceID) : xin.log.TraceID[i] # 0
    /\ \A i \in 1..Len(xin.log.SpanID) : xin.log.SpanID[i] = 0
    /\ "trace_id" \in DOMAIN xout.res.event.Message
    /\ Len(xout.res.event.Message["trace_id"][2]) = 32
    /\ "span_id" \notin DOMAIN xout.res.event.Message

\* C12: attrsValue of a collection with no entry is nil, not an empty map, and
\* the message of a record with no attribute has no attributes field and that
\* of a record of a resource with no attribute has no resource field; of a
\* collection with entries attrsValue is a map with exactly its keys, and so
\* is the field of the message
EmptyAttributesAreAbsent ==
    xout.done =>
        /\ \A attrs \in {xin.log.Attributes, xin.resource} :
              IF DOMAIN attrs = {}
              THEN attrsValue(attrs) = Nil
              ELSE /\ attrsValue(attrs)[1] = "map"
                   /\ DOMAIN attrsValue(attrs)[2] = DOMAIN attrs
        /\ Translated =>
              LET msg == xout.res.event.Message
              IN  /\ "attributes" \in DOMAIN msg <=> DOMAIN xin.log.Attributes # {}
                  /\ "resource" \in DOMAIN msg <=> DOMAIN xin.resource # {}
                  /\ "attributes" \in DOMAIN msg =>
                         /\ msg["attributes"][1] = "object"
                         /\ DOMAIN msg["attributes"][2] = DOMAIN xin.log.Attributes
                  /\ "resource" \in DOMAIN msg =>
                         /\ msg["resource"][1] = "object"
                         /\ DOMAIN msg["resource"][2] = DOMAIN xin.resource

\* A record with no attribute of a resource with one attribute was translated:
\* the message has the resource field and no attributes field
NoAttributesButResourceTranslated ==
    /\ Translated
    /\ DOMAIN xin.log.Attributes = {}
    /\ DOMAIN xin.resource # {}
    /\ "attributes" \notin DOMAIN xout.res.event.Message
    /\ DOMAIN xout.res.event.Message["resource"][2] = DOMAIN xin.resource

----------------------------------------------------------------------------
(* Properties of Shutdown, Start and the registry *)

\* C13: a Shutdown call that has returned has made exactly one Pusher call, a
\* ForceFlush on a Pusher of the (group, stream) of the Config, and its result
\* is nil whether the flush failed or not; a Start call changes nothing of the
\* exporter and its result is nil
ShutdownFlushesOnceAndStartDoesNothing ==
    /\ [](\A p \in Callers :
            (frame[p].op = "Shutdown" /\ pc[p] = "done") =>
                /\ Len(CallsOf(p)) = 1
                /\ CallsOf(p)[1].method = "ForceFlush"
                /\ DestOf(CallsOf(p)[1]) = config
                /\ frame[p].result = "nil")
    /\ [][\A p \in Callers :
            (pc[p] = "idle" /\ frame'[p].op = "Start") =>
                /\ pc'[p] = "done"
                /\ frame'[p].result = "nil"
                /\ UNCHANGED <<config, seqTokenMu, groupStreamToPusherMap, streamMaps,
                               pushers, fatal, trace>>]_vars

\* A Shutdown call has returned nil after its flush failed, beside a Start call
\* that has returned
ShutdownReturnedAfterFailedFlush ==
    \E p, q \in Callers :
        /\ frame[p].op = "Shutdown" /\ pc[p] = "done"
        /\ frame[p].result = "nil"
        /\ Len(CallsOf(p)) = 1
        /\ CallsOf(p)[1].err = "ErrFlush"
        /\ frame[q].op = "Start" /\ pc[q] = "done"

\* C14, as claimed: a PushLogs call whose batch yields no event makes no Pusher
\* call, returns nil, and constructs no Pusher and no entry of the registry: it
\* is never at the statements of getLogPusher that insert
ZeroEventsLeaveTheRegistryAlone ==
    \A p \in Callers :
        (Running(p) /\ Len(logsToCWLogs(frame[p].ld).out) = 0)
        => /\ Len(CallsOf(p)) = 0
           /\ AtReturn(p) => frame[p].result = "nil"
           /\ pc[p] \notin RegistryWrites

\* C14, amended: a PushLogs call whose batch has yielded no event (logEvents
\* is empty after logsToCWLogs) goes to its return, makes no Pusher call and
\* returns nil, but it has resolved a Pusher of the (group, stream) of the
\* Config before it translated the batch, constructing it when the registry
\* held none
ZeroEventsCallNoPusher ==
    \A p \in Callers :
        (/\ frame[p].op = "PushLogs"
         /\ pc[p] \in {"append", "flush", "unlock"}
         /\ Len(frame[p].logEvents) = 0)
        => /\ pc[p] = "unlock"
           /\ Len(CallsOf(p)) = 0
           /\ frame[p].result = "nil"
           /\ frame[p].logPusher \in 1..Len(pushers)
           /\ pushers[frame[p].logPusher] = config

\* The first call on the exporter is a PushLogs call about to return on a
\* batch whose only record failed translation: its Pusher was constructed
ZeroEventsOnFreshExporter ==
    \E p \in Callers :
        /\ AtReturn(p)
        /\ Len(RecordsOf(frame[p].ld)) = 1
        /\ Len(frame[p].logEvents) = 0
        /\ \A q \in Callers \ {p} : pc[q] = "idle"
        /\ Len(pushers) = 1
        /\ frame[p].logPusher = 1

\* C17: the key of the destination is that of the Config in every call: the
\* registry holds at most one group, the one of the Config, with at most one
\* stream, the one of the Config, and every Pusher constructed and every
\* Pusher call is for that (group, stream), whatever the batch
DestinationKeyIsFixed ==
    /\ config = <<LogGroupName, LogStreamName>>
    /\ DOMAIN groupStreamToPusherMap \subseteq {config[1]}
    /\ \A g \in DOMAIN groupStreamToPusherMap :
          DOMAIN streamMaps[groupStreamToPusherMap[g]] \subseteq {config[2]}
    /\ \A i \in 1..Len(pushers) : pushers[i] = config
    /\ \A i \in 1..Len(trace) : DestOf(trace[i]) = config

\* A PushLogs call and a Shutdown call have both returned after calls on the
\* one Pusher of the registry
PushLogsAndShutdownOnOneKey ==
    \E p, q \in Callers :
        /\ frame[p].op = "PushLogs" /\ pc[p] = "done" /\ Len(CallsOf(p)) > 0
        /\ frame[q].op = "Shutdown" /\ pc[q] = "done" /\ Len(CallsOf(q)) > 0
        /\ CallsOf(p)[1].pusher = CallsOf(q)[1].pusher
        /\ DOMAIN groupStreamToPusherMap = {config[1]}
        /\ DOMAIN streamMaps[groupStreamToPusherMap[config[1]]] = {config[2]}

\* C20: every AddLogEntry call of a PushLogs call that has reached its return
\* is followed by a ForceFlush call of that same call on the same Pusher,
\* whether the AddLogEntry calls failed or not; so when no PushLogs call is in
\* progress, no event passed to AddLogEntry by PushLogs is left without a
\* later flush by its call
AppendsAreFollowedByFlush ==
    LET Flushed(i) ==
            \E j \in (i + 1)..Len(trace) :
                /\ trace[j].caller = trace[i].caller
                /\ trace[j].method = "ForceFlush"
                /\ trace[j].pusher = trace[i].pusher
    IN  /\ \A p \in Callers :
              Returning(p) =>
                  \A i \in 1..Len(trace) :
                      (trace[i].caller = p /\ trace[i].method = "AddLogEntry") => Flushed(i)
        /\ (\A p \in Callers : ~Running(p)) =>
              \A i \in 1..Len(trace) :
                  (trace[i].op = "PushLogs" /\ trace[i].method = "AddLogEntry") => Flushed(i)

\* A PushLogs call has returned after both of its AddLogEntry calls failed and
\* its flush was made, and no PushLogs call is in progress
AllAppendsFailedThenFlushed ==
    /\ \A q \in Callers : ~Running(q)
    /\ \E p \in Callers :
          /\ frame[p].op = "PushLogs" /\ pc[p] = "done"
          /\ Len(AppendsOf(p)) = 2
          /\ \A i \in 1..2 : AppendsOf(p)[i].err # "nil"
          /\ Len(FlushesOf(p)) = 1

----------------------------------------------------------------------------
(* Properties of attrValue *)

\* The plain value out is the flattening of the attribute value v
RECURSIVE Flattens(_, _)
Flattens(v, out) ==
    CASE AttrType(v) = "String" -> out = <<"string", v[2]>>
      [] AttrType(v) = "Int" -> out = <<"int64", v[2]>>
      [] AttrType(v) = "Double" -> out = <<"float64", v[2]>>
      [] AttrType(v) = "Bool" -> out = <<"bool", v[2]>>
      [] AttrType(v) = "Map" ->
            /\ out[1] = "map"
            /\ DOMAIN out[2] = DOMAIN v[2]
            /\ \A k \in DOMAIN v[2] : Flattens(v[2][k], out[2][k])
      [] AttrType(v) = "Array" ->
            /\ out[1] = "slice"
            /\ DOMAIN out[2] = 1..Len(v[2])
            /\ \A i \in 1..Len(v[2]) : Flattens(v[2][i], out[2][i])
      [] OTHER -> out = Nil

\* C18: attrValue gives a result for every variant of attribute value: a
\* string, integer, double or boolean gives itself; a map gives a map of the
\* same keys with every value flattened; an array gives a sequence of the same
\* length with every element flattened in its place, the empty array the empty
\* sequence and not nil; the empty variant and an unrecognized variant give
\* nil.  The body of the message is that result written as JSON
AttrValueFlattensEveryVariant ==
    xout.done =>
        /\ Flattens(xin.log.Body, attrValue(xin.log.Body))
        /\ \A k \in DOMAIN xin.log.Attributes :
              Flattens(xin.log.Attributes[k], attrValue(xin.log.Attributes[k]))
        /\ Translated =>
              LET msg == xout.res.event.Message
              IN  IF AttrType(xin.log.Body) \in {"Empty", "Bytes"}
                  THEN "body" \notin DOMAIN msg
                  ELSE msg["body"] = jsonEncode(attrValue(xin.log.Body))

\* A record whose body is an empty array was translated: the body of the
\* message is the empty array
EmptyArrayBodyTranslated ==
    /\ Translated
    /\ xin.log.Body = <<"Array", <<>>>>
    /\ xout.res.event.Message["body"] = <<"array", <<>>>>

====
